---- MODULE Spec2Model ----
(***************************************************************************)
(* A model of the video processing engine: the job orchestrator            *)
(* (core/turntable.py, spin), the download dispatcher                      *)
(* (core/consumer/downloader.py), the live capture loop                    *)
(* (core/capture/live.py, start_live_recording) and the motion detector    *)
(* (core/detect/motion.py, track_motion).  Each is a sequential program of *)
(* its own; a specification below runs one of them and leaves the others   *)
(* switched off.                                                           *)
(***************************************************************************)
EXTENDS Integers, Sequences, FiniteSets, TLC

\* ---------------------------------------------------------------- bounds
\* The most clips a trimming strategy returns in the model.
MaxClips == 2
\* The messages published to file-transfer-Q in the model.
MaxMsgs == 2
\* The failures of the consume loop that are not raised by a callback.
MaxFailures == 2
\* The longest recording window asked of the live capture, in seconds.
MaxDuration == 3
\* The largest camera_timeout, in seconds.
MaxTimeout == 2
\* The wall clock is followed this far past the window's start.
MaxClock == 8
\* The transcoder runs of one live capture session in the model.
MaxSegments == 3
\* The frames a video source yields at most in the model.
MaxFrames == 50
\* The qualifying contours of one frame, at most.
MaxContours == 2
\* The last second of the day in the model of the capture trigger.
MaxTime == 12

VARIABLES
  \* ---- spin (core/turntable.py)
  job,          \* the parsed job descriptor (the flags spin reads)
  spin_pc,      \* the position of spin in its pipeline
  original_file, cloned_file, temp_file, final_file,
  upload_list, temp_list, trim_upload, urls,
  disk,         \* the local files that exist
  bucket_objs,  \* the files uploaded to the S3 bucket, in upload order
  csv,          \* the rows appended to reports/<bucket>.csv
  db_calls,     \* every create_video_map_obj call: [file, url, ok]
  removed,      \* the files os.remove has deleted, in order
  spin_log,     \* the notable log lines of the run
  raised_at,    \* the step whose exception reached spin's handler
  ran,          \* the steps completed so far, in order
  spin_exit,    \* how spin left: "none", "return", "exit0"
  trim_compressed, \* the resolved flag of lines 166-169, FALSE until then
  \* ---- the download dispatcher (core/consumer/downloader.py)
  msgs,         \* message id -> the body published, or Unsent
  queue,        \* file-transfer-Q at the broker: ids not yet delivered
  con_pc,       \* the position of the dispatcher process
  channel,      \* the global channel: the number of the connection made
  consumer_on,  \* the channel basic_consume registered callback on, 0: none
  depth,        \* the consume() frames on the call stack
  broker_up,    \* whether the broker accepts connections
  cur,          \* the message callback is handling, 0: none
  dispatched,   \* message id -> the number of compute calls with it
  invoked,      \* message id -> the connectors compute called for it
  compute_raised, \* the messages whose handling raised
  failures,     \* the failures of the consume loop not due to a callback
  reconnects,   \* the connections made by consume's except branch
  \* ---- start_live_recording (core/capture/live.py)
  lr_pc,        \* the position of start_live_recording
  duration,     \* the remaining duration, in seconds
  slept_duration, \* the seconds slept since the last segment
  lr_idx,       \* the index of the next segment file
  clock,        \* the wall clock, in seconds since the window's start time
  start_second, \* the seconds of the minute at the window's start time
  force_close,  \* the end of the window on that clock
  camera_timeout,
  workspace,    \* whether the session directory has been made
  segments,     \* the transcoder runs: [idx, requested, stopped]
  probes,       \* the liveness probes made
  concat_outcome, \* what concate_videos did, "not_called" before
  lr_result,    \* "none" while running, then "merged", "absent", "raised"
  slept_total,  \* the seconds slept with the camera down, over the whole call
  \* ---- track_motion (core/detect/motion.py)
  tm_pc,        \* the position of track_motion
  frame_no,     \* the frames read from the stream so far
  first_frame,  \* whether the reference frame is set
  consec_frames,
  recording,    \* kcw.recording
  tm_idx,       \* the index of the next segment file
  released,     \* whether the stop key has released the stream
  updates,      \* the kcw.update calls
  n_starts,     \* the kcw.start calls
  n_finishes,   \* the kcw.finish calls
  finished_at,  \* the frame at which the loop last finalized a segment
  idle_at_finish, \* the frames since the last motion frame, at that frame
  last_motion,  \* the last frame with a qualifying contour
  on_script,    \* whether motion was on frames 10..15 and only there so far
  merges,       \* the concate_videos calls
  tm_result,    \* "none" while running, then "file", "absent", "raised"
  \* ---- the download connectors (utils/downloads.py)
  dl_pc,        \* the position of the connector call
  connector,    \* "gdrive", "azure" or "ftp"
  dl_file,      \* the bytes of downloads/<file_name>.mp4, NoSize without it
  dl_written,   \* whether this call wrote that file
  dl_transfer,  \* "none", then how the transfer of this call went
  dl_result,    \* "none", then "success", "absent" or "raised"
  dl_msg,       \* the second component of the pair returned
  \* ---- trigger_live_capture (core/capture/live.py)
  tg_pc,        \* the position of the trigger
  tg_start,     \* the job's start time, a second of the day
  tg_first,     \* the second of the first poll
  tg_now,       \* the current second
  tg_polls,     \* the polls that found the start time not reached
  tg_calls,     \* the calls of start_live_recording
  tg_called_at  \* the second at which start_live_recording was called

spinVars == <<job, spin_pc, original_file, cloned_file, temp_file, final_file,
              upload_list, temp_list, trim_upload, urls, disk, bucket_objs,
              csv, db_calls, removed, spin_log, raised_at, ran, spin_exit,
              trim_compressed>>

conVars == <<msgs, queue, con_pc, channel, consumer_on, depth, broker_up, cur,
             dispatched, invoked, compute_raised, failures, reconnects>>

liveVars == <<lr_pc, duration, slept_duration, lr_idx, clock, start_second,
              force_close,
              camera_timeout, workspace, segments, probes, concat_outcome,
              lr_result, slept_total>>

motionVars == <<tm_pc, frame_no, first_frame, consec_frames, recording, tm_idx,
                released, updates, n_starts, n_finishes, finished_at,
                idle_at_finish, last_motion, on_script, merges, tm_result>>

dlVars == <<dl_pc, connector, dl_file, dl_written, dl_transfer, dl_result,
            dl_msg>>

tgVars == <<tg_pc, tg_start, tg_first, tg_now, tg_polls, tg_calls,
            tg_called_at>>

vars == <<spinVars, conVars, liveVars, motionVars, dlVars, tgVars>>

\* ------------------------------------------------------------------ files
NoFile == <<"none", 0>>          \* Python's None where a path is expected
Stored == <<"stored", 0>>        \* downloads/<stored_filename>.mp4
Live == <<"live", 0>>            \* the file the live capture returns
Clone == <<"clone", 0>>          \* the working copy (rename_original_file)
Archive == <<"archive", 0>>      \* create_copy's archival copy
Sample == <<"sample", 0>>        \* trim_sample_section's audit sample
Redacted == <<"redacted", 0>>    \* redact_faces' output
Final == <<"final", 0>>          \* rename_aaaa_file's result
Compressed == <<"compressed", 0>>
Clip(i) == <<"clip", i>>
Url(f) == <<"url", f>>           \* the public URL upload_to_bucket returns
NoUrl == <<"nourl", 0>>          \* None in place of a URL

\* What upload_to_bucket hands back for a file: its public URL, or nothing
\* after a connectivity failure it handled itself.
UploadResults(f) == {Url(f), NoUrl}

Range(s) == {s[i] : i \in DOMAIN s}

\* The lists a trimming strategy may return: 0..MaxClips clips, in order.
TrimResults == {[i \in 1..n |-> Clip(i)] : n \in 0..MaxClips}

TriState == {"absent", "true", "false"}

Jobs == [use_stored : BOOLEAN, analyze_motion : BOOLEAN, analyze_face : BOOLEAN,
         perform_compression : BOOLEAN, perform_trimming : BOOLEAN,
         trim_compressed : TriState]

\* Mutant of ResolvedTrimCompressed: the payload value under every setting of
\* perform_trimming.
PayloadTrimCompressed(j) == j.trim_compressed # "false"

\* json_data.get('trim_compressed', True) under perform_trimming, else False.
ResolvedTrimCompressed(j) ==
  IF j.perform_trimming THEN j.trim_compressed # "false" ELSE FALSE

\* ------------------------------------------------------------ spin: steps
\* The steps whose exception reaches spin's handler.  The bucket provisioning
\* and the database inserts catch their own (see SpinBucket, SpinDb).
SpinSteps == {"parse", "acquire", "clone", "motion", "sample", "face", "rename",
              "compress_trim", "bucket", "upload", "csv", "db", "cleanup"}
RaisingSteps == SpinSteps \ {"bucket", "db"}

\* The step after s in the pipeline.
StepAfter(s) ==
  CASE s = "parse" -> "acquire"
    [] s = "acquire" -> "clone"
    [] s = "clone" -> "motion"
    [] s = "motion" -> "sample"
    [] s = "sample" -> "face"
    [] s = "face" -> "rename"
    [] s = "rename" -> "compress_trim"
    [] s = "compress_trim" -> "bucket"
    [] s = "bucket" -> "upload"
    [] s = "upload" -> "csv"
    [] s = "csv" -> "db"
    [] s = "db" -> "cleanup"
    [] OTHER -> "done"

\* Mutant of HandlerNextPc: the handler resumes the pipeline after the
\* failing step instead of returning.
HandlerResumes(s) == StepAfter(s)

\* Where spin goes once its handler has logged the exception: it returns.
HandlerNextPc(s) == "returned"

\* Mutant of InsertFailurePc: a failed insert leaves write_to_db.
InsertFailureRaises == "handler"

\* Where write_to_db goes after a failed insert: on to the next record.
InsertFailurePc == "db"

Goto(pc, label) ==
  /\ spin_pc' = pc
  /\ ran' = Append(ran, label)

\* The dispatcher, switched off.
ConOff ==
  /\ msgs = <<>> /\ queue = <<>> /\ con_pc = "off" /\ channel = 0
  /\ consumer_on = 0 /\ depth = 0 /\ broker_up = FALSE /\ cur = 0
  /\ dispatched = <<>> /\ invoked = <<>> /\ compute_raised = {}
  /\ failures = 0 /\ reconnects = 0

\* spin, switched off.
SpinOff ==
  /\ job = [use_stored |-> FALSE, analyze_motion |-> FALSE,
            analyze_face |-> FALSE, perform_compression |-> FALSE,
            perform_trimming |-> FALSE, trim_compressed |-> "absent"]
  /\ spin_pc = "off"
  /\ original_file = NoFile /\ cloned_file = NoFile
  /\ temp_file = NoFile /\ final_file = NoFile
  /\ upload_list = <<>> /\ temp_list = <<>> /\ trim_upload = <<>> /\ urls = <<>>
  /\ disk = {}
  /\ bucket_objs = <<>> /\ csv = <<>> /\ db_calls = <<>> /\ removed = <<>>
  /\ spin_log = <<>> /\ raised_at = "none" /\ ran = <<>> /\ spin_exit = "none"
  /\ trim_compressed = FALSE

\* start_live_recording, switched off.
LiveOff ==
  /\ lr_pc = "off" /\ duration = 0 /\ slept_duration = 0 /\ lr_idx = 0
  /\ clock = 0 /\ start_second = 0 /\ force_close = 0 /\ camera_timeout = 0
  /\ workspace = FALSE /\ segments = <<>> /\ probes = 0
  /\ concat_outcome = "not_called" /\ lr_result = "none"
  /\ slept_total = 0

\* No frame yet.
NoFrame == 0 - 1

\* track_motion, switched off.
MotionOff ==
  /\ tm_pc = "off" /\ frame_no = 0 /\ first_frame = FALSE
  /\ consec_frames = 0 /\ recording = FALSE /\ tm_idx = 0
  /\ released = FALSE /\ updates = 0 /\ n_starts = 0 /\ n_finishes = 0
  /\ finished_at = NoFrame /\ idle_at_finish = NoFrame
  /\ last_motion = NoFrame /\ on_script = FALSE /\ merges = 0
  /\ tm_result = "none"

\* No file of that name.
NoSize == 0 - 1

\* The connectors, not called.
DownloadOff ==
  /\ dl_pc = "off" /\ connector = "none" /\ dl_file = NoSize
  /\ dl_written = FALSE /\ dl_transfer = "none" /\ dl_result = "none"
  /\ dl_msg = ""

\* The capture trigger, not called.
TriggerOff ==
  /\ tg_pc = "off" /\ tg_start = 0 /\ tg_first = 0 /\ tg_now = 0
  /\ tg_polls = 0 /\ tg_calls = 0 /\ tg_called_at = 0

InitSpin ==
  /\ ConOff /\ LiveOff /\ MotionOff /\ DownloadOff /\ TriggerOff
  /\ job \in Jobs
  /\ spin_pc = "parse"
  /\ original_file = NoFile /\ cloned_file = NoFile
  /\ temp_file = NoFile /\ final_file = NoFile
  /\ upload_list = <<>> /\ temp_list = <<>> /\ trim_upload = <<>> /\ urls = <<>>
  /\ disk \in {{}, {Stored}}
  /\ bucket_objs = <<>> /\ csv = <<>> /\ db_calls = <<>> /\ removed = <<>>
  /\ spin_log = <<>> /\ raised_at = "none" /\ ran = <<>> /\ spin_exit = "none"
  /\ trim_compressed = FALSE

\* lines 99-113: start = now(), the four lists, json.loads, bucket and order.
SpinParse ==
  /\ spin_pc = "parse"
  /\ Goto("acquire", <<"parse", 0>>)
  /\ UNCHANGED <<conVars, liveVars, motionVars, dlVars, tgVars>>
  /\ UNCHANGED trim_compressed
  /\ UNCHANGED <<job, original_file, cloned_file, temp_file, final_file,
                 upload_list, temp_list, trim_upload, urls, disk, bucket_objs,
                 csv, db_calls, removed, spin_log, raised_at, spin_exit>>

\* Mutant of StoredPresent: the presence check always passes.
StoredAssumed(d) == TRUE

\* line 117: os.path.isfile(original_file), d being the files on disk.
StoredPresent(d) == Stored \in d

\* lines 114-121: the stored file must be in downloads, else spin raises.
SpinAcquireStored ==
  /\ spin_pc = "acquire"
  /\ job.use_stored
  /\ IF StoredPresent(disk)
       THEN /\ original_file' = Stored
            /\ Goto("clone", <<"acquire", 0>>)
            /\ UNCHANGED <<spin_log, raised_at>>
       ELSE /\ spin_log' = Append(spin_log, "not_selected")
            /\ raised_at' = "acquire"
            /\ spin_pc' = "handler"
            /\ UNCHANGED <<original_file, ran>>
  /\ UNCHANGED <<conVars, liveVars, motionVars, dlVars, tgVars>>
  /\ UNCHANGED trim_compressed
  /\ UNCHANGED <<job, cloned_file, temp_file, final_file, upload_list,
                 temp_list, trim_upload, urls, disk, bucket_objs, csv,
                 db_calls, removed, spin_exit>>

\* lines 122-135: the live capture returns a recorded file, or nothing.
SpinAcquireLive ==
  /\ spin_pc = "acquire"
  /\ ~job.use_stored
  /\ \E got \in {Live, NoFile} :
       /\ original_file' = got
       /\ disk' = IF got = Live THEN disk \cup {Live} ELSE disk
  /\ Goto("clone", <<"acquire", 0>>)
  /\ UNCHANGED <<conVars, liveVars, motionVars, dlVars, tgVars>>
  /\ UNCHANGED trim_compressed
  /\ UNCHANGED <<job, cloned_file, temp_file, final_file, upload_list,
                 temp_list, trim_upload, urls, bucket_objs, csv, db_calls,
                 removed, spin_log, raised_at, spin_exit>>

\* lines 136-143: the working copy, the archival copy, the sampling rate.
\* Without a file to copy, rename_original_file raises.
SpinClone ==
  /\ spin_pc = "clone"
  /\ IF original_file = NoFile
       THEN /\ raised_at' = "clone"
            /\ spin_pc' = "handler"
            /\ UNCHANGED <<cloned_file, temp_file, disk, ran>>
       ELSE /\ cloned_file' = Clone
            /\ temp_file' = Clone
            /\ disk' = disk \cup {Clone, Archive}
            /\ Goto("motion", <<"clone", 0>>)
            /\ UNCHANGED raised_at
  /\ UNCHANGED <<conVars, liveVars, motionVars, dlVars, tgVars>>
  /\ UNCHANGED trim_compressed
  /\ UNCHANGED <<job, original_file, final_file, upload_list, temp_list,
                 trim_upload, urls, bucket_objs, csv, db_calls, removed,
                 spin_log, spin_exit>>

\* motion.py lines 19-25: the parameters of track_motion.
TrackMotionParams ==
  {"file", "precision", "display", "bounding_box", "resize", "resize_width",
   "log"}

\* line 145: the keywords of the call of track_motion.
TrackMotionKeywords == {"log", "debug_mode"}

\* Mutant of CallRaises: the function takes every keyword.
CallAccepted(keywords, params) == FALSE

\* A call with a keyword the function does not have raises TypeError before
\* the function is entered.
CallRaises(keywords, params) == ~(keywords \subseteq params)

\* lines 144-151: track_motion is called with debug_mode=False, a keyword its
\* signature does not have: the call raises TypeError, and the motion stage
\* hands no file to the steps after it.
SpinMotion ==
  /\ spin_pc = "motion"
  /\ IF job.analyze_motion /\ CallRaises(TrackMotionKeywords, TrackMotionParams)
       THEN /\ raised_at' = "motion"
            /\ spin_pc' = "handler"
            /\ UNCHANGED ran
       ELSE /\ Goto("sample", <<"motion", 0>>)
            /\ UNCHANGED raised_at
  /\ UNCHANGED <<conVars, liveVars, motionVars, dlVars, tgVars>>
  /\ UNCHANGED trim_compressed
  /\ UNCHANGED <<job, original_file, cloned_file, temp_file, final_file,
                 upload_list, temp_list, trim_upload, urls, disk, bucket_objs,
                 csv, db_calls, removed, spin_log, spin_exit>>

\* lines 152-154: the audit sample goes to temp_list (the cleanup list).
SpinSample ==
  /\ spin_pc = "sample"
  /\ disk' = disk \cup {Sample}
  /\ temp_list' = Append(temp_list, Sample)
  /\ Goto("face", <<"sample", 0>>)
  /\ UNCHANGED <<conVars, liveVars, motionVars, dlVars, tgVars>>
  /\ UNCHANGED trim_compressed
  /\ UNCHANGED <<job, original_file, cloned_file, temp_file, final_file,
                 upload_list, trim_upload, urls, bucket_objs, csv, db_calls,
                 removed, spin_log, raised_at, spin_exit>>

\* Mutant of Move: the source stays where it was (a copy).
MoveKeepsSource(d, src, dst) == d \cup {dst}

\* shutil.move(src, dst), lines 147 and 159, d being the files on disk.
Move(d, src, dst) == (d \ {src}) \cup {dst}

\* lines 155-163: redact_faces' output is moved onto the working copy's path;
\* with no output, shutil.move(None, ...) raises.
SpinFace ==
  /\ spin_pc = "face"
  /\ IF job.analyze_face
       THEN \E out \in {Redacted, NoFile} :
              IF out = NoFile
                THEN /\ raised_at' = "face"
                     /\ spin_pc' = "handler"
                     /\ UNCHANGED <<temp_file, cloned_file, disk, ran>>
                ELSE /\ temp_file' = cloned_file
                     /\ cloned_file' = cloned_file
                     /\ disk' = Move(disk \cup {out}, out, cloned_file)
                     /\ Goto("rename", <<"face", 0>>)
                     /\ UNCHANGED raised_at
       ELSE /\ Goto("rename", <<"face", 0>>)
            /\ UNCHANGED <<temp_file, cloned_file, disk, raised_at>>
  /\ UNCHANGED <<conVars, liveVars, motionVars, dlVars, tgVars>>
  /\ UNCHANGED trim_compressed
  /\ UNCHANGED <<job, original_file, final_file, upload_list, temp_list,
                 trim_upload, urls, bucket_objs, csv, db_calls, removed,
                 spin_log, spin_exit>>

\* lines 164-175: the flags are resolved, the working copy is renamed and the
\* renamed file opens the upload list.
SpinRename ==
  /\ spin_pc = "rename"
  /\ final_file' = Final
  /\ disk' = (disk \ {cloned_file}) \cup {Final}
  /\ upload_list' = Append(upload_list, Final)
  /\ trim_compressed' = ResolvedTrimCompressed(job)
  /\ Goto("compress_trim", <<"rename", 0>>)
  /\ UNCHANGED <<conVars, liveVars, motionVars, dlVars, tgVars>>
  /\ UNCHANGED <<job, original_file, cloned_file, temp_file, temp_list,
                 trim_upload, urls, bucket_objs, csv, db_calls, removed,
                 spin_log, raised_at, spin_exit>>

\* Mutant of TrimsWhen: trimming follows perform_trimming alone.
TrimsWhenAsked(j) == j.perform_trimming

\* lines 176-181: whether trimming_callable is called: under compression if
\* trim_compressed, else if perform_trimming.
TrimsWhen(j) ==
  IF j.perform_compression THEN trim_compressed
                           ELSE j.perform_trimming

\* lines 176-183: compress, and trim when the flags ask for it; the trim
\* outputs extend the upload list.  A call of trimming_callable is noted in
\* ran as the step "trim".
SpinCompressTrim ==
  /\ spin_pc = "compress_trim"
  /\ \E clips \in TrimResults :
       LET trims == TrimsWhen(job)
           out == IF trims THEN clips ELSE <<>>
       IN /\ final_file' = IF job.perform_compression THEN Compressed
                                                      ELSE final_file
          /\ disk' = disk \cup Range(out)
                          \cup (IF job.perform_compression THEN {Compressed}
                                                           ELSE {})
          /\ trim_upload' = out
          /\ upload_list' = upload_list \o out
          /\ ran' = IF trims
                      THEN ran \o << <<"compress_trim", 0>>, <<"trim", 0>> >>
                      ELSE Append(ran, <<"compress_trim", 0>>)
  /\ spin_pc' = "bucket"
  /\ UNCHANGED <<conVars, liveVars, motionVars, dlVars, tgVars>>
  /\ UNCHANGED trim_compressed
  /\ UNCHANGED <<job, original_file, cloned_file, temp_file, temp_list, urls,
                 bucket_objs, csv, db_calls, removed, spin_log, raised_at,
                 spin_exit>>

\* lines 184-190: create_s3_bucket; its failure is caught and passed over.
SpinBucket ==
  /\ spin_pc = "bucket"
  /\ \E ok \in BOOLEAN :
       spin_log' = IF ok THEN Append(spin_log, "bucket_created") ELSE spin_log
  /\ Goto("upload", <<"bucket", 0>>)
  /\ UNCHANGED <<conVars, liveVars, motionVars, dlVars, tgVars>>
  /\ UNCHANGED trim_compressed
  /\ UNCHANGED <<job, original_file, cloned_file, temp_file, final_file,
                 upload_list, temp_list, trim_upload, urls, disk, bucket_objs,
                 csv, db_calls, removed, raised_at, spin_exit>>

\* lines 192-198: one upload per entry of the upload list, in order.
SpinUpload ==
  /\ spin_pc = "upload"
  /\ IF Len(urls) < Len(upload_list)
       THEN LET file == upload_list[Len(urls) + 1]
            IN \E url \in UploadResults(file) :
                 /\ bucket_objs' = IF url = NoUrl THEN bucket_objs
                                                  ELSE Append(bucket_objs, file)
                 /\ urls' = Append(urls, url)
                 /\ Goto("upload", <<"upload", Len(urls) + 1>>)
       ELSE /\ spin_pc' = "csv"
            /\ UNCHANGED <<bucket_objs, urls, ran>>
  /\ UNCHANGED <<conVars, liveVars, motionVars, dlVars, tgVars>>
  /\ UNCHANGED trim_compressed
  /\ UNCHANGED <<job, original_file, cloned_file, temp_file, final_file,
                 upload_list, temp_list, trim_upload, disk, csv, db_calls,
                 removed, spin_log, raised_at, spin_exit>>

\* lines 199-204: one row of all the URLs is appended to the report; the
\* upload list joins the cleanup list.
SpinCsv ==
  /\ spin_pc = "csv"
  /\ csv' = Append(csv, urls)
  /\ temp_list' = temp_list \o upload_list
  /\ Goto("db", <<"csv", 0>>)
  /\ UNCHANGED <<conVars, liveVars, motionVars, dlVars, tgVars>>
  /\ UNCHANGED trim_compressed
  /\ UNCHANGED <<job, original_file, cloned_file, temp_file, final_file,
                 upload_list, trim_upload, urls, disk, bucket_objs, db_calls,
                 removed, spin_log, raised_at, spin_exit>>

\* smash_db's records: one per (file, url) pair of zip(videos, urls).
VideoObj(videos, us) ==
  LET n == IF Len(videos) < Len(us) THEN Len(videos) ELSE Len(us)
  IN [i \in 1..n |-> [file |-> videos[i], url |-> us[i]]]

\* line 205, smash_db and write_to_db (77-94): one insert per record; a
\* failed insert is logged and the loop goes on.
SpinDb ==
  /\ spin_pc = "db"
  /\ LET video_obj == VideoObj(upload_list, urls)
     IN IF Len(db_calls) < Len(video_obj)
          THEN \E ok \in BOOLEAN :
                 LET rec == video_obj[Len(db_calls) + 1]
                 IN /\ db_calls' = Append(db_calls,
                                          [file |-> rec.file, url |-> rec.url,
                                           ok |-> ok])
                    /\ ran' = Append(ran, <<"db", Len(db_calls) + 1>>)
                    /\ IF ok
                         THEN /\ spin_pc' = "db"
                              /\ UNCHANGED <<spin_log, raised_at>>
                         ELSE /\ spin_log' = Append(spin_log, "insert_error")
                              /\ spin_pc' = InsertFailurePc
                              /\ raised_at' = IF InsertFailurePc = "handler"
                                                THEN "db" ELSE raised_at
          ELSE /\ spin_pc' = "cleanup"
               /\ UNCHANGED <<db_calls, ran, spin_log, raised_at>>
  /\ UNCHANGED <<conVars, liveVars, motionVars, dlVars, tgVars>>
  /\ UNCHANGED trim_compressed
  /\ UNCHANGED <<job, original_file, cloned_file, temp_file, final_file,
                 upload_list, temp_list, trim_upload, urls, disk, bucket_objs,
                 csv, removed, spin_exit>>

\* lines 207-213: os.remove on every entry of temp_list; a missing file
\* raises.
SpinCleanup ==
  /\ spin_pc = "cleanup"
  /\ IF Len(removed) < Len(temp_list)
       THEN LET file == temp_list[Len(removed) + 1]
            IN IF file \in disk
                 THEN /\ disk' = disk \ {file}
                      /\ removed' = Append(removed, file)
                      /\ Goto("cleanup", <<"cleanup", Len(removed) + 1>>)
                      /\ UNCHANGED <<raised_at, spin_exit>>
                 ELSE /\ raised_at' = "cleanup"
                      /\ spin_pc' = "handler"
                      /\ UNCHANGED <<disk, removed, ran, spin_exit>>
       ELSE /\ spin_pc' = "done"
            /\ spin_exit' = "return"
            /\ UNCHANGED <<disk, removed, ran, raised_at>>
  /\ UNCHANGED <<conVars, liveVars, motionVars, dlVars, tgVars>>
  /\ UNCHANGED trim_compressed
  /\ UNCHANGED <<job, original_file, cloned_file, temp_file, final_file,
                 upload_list, temp_list, trim_upload, urls, bucket_objs, csv,
                 db_calls, spin_log>>

\* Any call of a step may raise (a missing key, a failed external tool, a
\* failed upload ...): the exception leaves the try block at that step.
SpinRaise ==
  /\ spin_pc \in RaisingSteps
  /\ raised_at' = spin_pc
  /\ spin_pc' = "handler"
  /\ UNCHANGED <<conVars, liveVars, motionVars, dlVars, tgVars>>
  /\ UNCHANGED trim_compressed
  /\ UNCHANGED <<job, original_file, cloned_file, temp_file, final_file,
                 upload_list, temp_list, trim_upload, urls, disk, bucket_objs,
                 csv, db_calls, removed, spin_log, ran, spin_exit>>

\* lines 217-219: the exception is logged, the run reported as critical, and
\* spin returns.
SpinHandler ==
  /\ spin_pc = "handler"
  /\ spin_log' = Append(spin_log, "critical")
  /\ spin_pc' = HandlerNextPc(raised_at)
  /\ spin_exit' = IF HandlerNextPc(raised_at) = "returned" THEN "return"
                                                           ELSE spin_exit
  /\ UNCHANGED <<conVars, liveVars, motionVars, dlVars, tgVars>>
  /\ UNCHANGED trim_compressed
  /\ UNCHANGED <<job, original_file, cloned_file, temp_file, final_file,
                 upload_list, temp_list, trim_upload, urls, disk, bucket_objs,
                 csv, db_calls, removed, raised_at, ran>>

\* lines 214-216: an operator interrupt at any step is logged and answered
\* with exit(0).
SpinInterrupt ==
  /\ spin_pc \in SpinSteps
  /\ spin_log' = Append(spin_log, "interrupted")
  /\ spin_pc' = "exited"
  /\ spin_exit' = "exit0"
  /\ UNCHANGED <<conVars, liveVars, motionVars, dlVars, tgVars>>
  /\ UNCHANGED trim_compressed
  /\ UNCHANGED <<job, original_file, cloned_file, temp_file, final_file,
                 upload_list, temp_list, trim_upload, urls, disk, bucket_objs,
                 csv, db_calls, removed, raised_at, ran>>

NextSpin ==
  \/ SpinParse
  \/ SpinAcquireStored
  \/ SpinAcquireLive
  \/ SpinClone
  \/ SpinMotion
  \/ SpinSample
  \/ SpinFace
  \/ SpinRename
  \/ SpinCompressTrim
  \/ SpinBucket
  \/ SpinUpload
  \/ SpinCsv
  \/ SpinDb
  \/ SpinCleanup
  \/ SpinRaise
  \/ SpinHandler
  \/ SpinInterrupt

SpecSpin == InitSpin /\ [][NextSpin]_vars

\* ------------------------------------------- the download dispatcher
MsgIds == 1..MaxMsgs
Unsent == [sent |-> FALSE]

AccessTypes == {"GCP", "Microsoft", "FTP", "S3", "FTP TOOL", "other", "missing"}

\* The bodies published: one that is not JSON, and the JSON objects by their
\* access_type and by whether they carry a stored_filename.
Bodies ==
  {[sent |-> TRUE, valid |-> FALSE, access_type |-> "missing",
    has_filename |-> FALSE]}
  \cup {[sent |-> TRUE, valid |-> TRUE, access_type |-> a, has_filename |-> h] :
          a \in AccessTypes, h \in BOOLEAN}

\* compute, lines 29-56: the connector the if/elif chain calls, "none" when
\* no branch calls one.
Connector(access_type) ==
  CASE access_type = "GCP" -> "download_from_google_drive"
    [] access_type = "Microsoft" -> "download_from_azure"
    [] access_type = "FTP" -> "download_using_ftp"
    [] access_type = "S3" -> "access_file_update"
    [] OTHER -> "none"

\* compute, lines 28 and 54-56: json.loads raises on a body that is not JSON,
\* and the FTP TOOL branch joins downloads with stored_filename, which raises
\* TypeError when the message has none.
ComputeRaisesItself(body) ==
  \/ ~body.valid
  \/ body.access_type = "FTP TOOL" /\ ~body.has_filename

\* Mutant of AckOnDelivery: the delivered message stays in the queue.
KeepOnDelivery(q) == q

\* basic_consume(auto_ack=True), lines 65-67: the broker takes a message off
\* the queue when it delivers it.
AckOnDelivery(q) == Tail(q)

InitConsumer ==
  /\ msgs = [m \in MsgIds |-> Unsent]
  /\ queue = <<>>
  /\ con_pc = "import"
  /\ channel = 0 /\ consumer_on = 0 /\ depth = 0
  /\ broker_up \in BOOLEAN
  /\ cur = 0
  /\ dispatched = [m \in MsgIds |-> 0]
  /\ invoked = [m \in MsgIds |-> <<>>]
  /\ compute_raised = {}
  /\ failures = 0 /\ reconnects = 0
  /\ SpinOff /\ LiveOff /\ MotionOff /\ DownloadOff /\ TriggerOff

\* line 64, pika_connect (15-24) at import: with the broker unreachable the
\* exception ends the process before the loop starts.
ConImport ==
  /\ con_pc = "import"
  /\ IF broker_up
       THEN /\ channel' = 1
            /\ con_pc' = "register"
       ELSE /\ con_pc' = "terminated"
            /\ UNCHANGED channel
  /\ UNCHANGED <<msgs, queue, consumer_on, depth, broker_up, cur, dispatched,
                 invoked, compute_raised, failures, reconnects>>
  /\ UNCHANGED <<spinVars, liveVars, motionVars, dlVars, tgVars>>

\* lines 65-67: callback is registered on the channel just opened.
ConRegister ==
  /\ con_pc = "register"
  /\ consumer_on' = channel
  /\ con_pc' = "main"
  /\ UNCHANGED <<msgs, queue, channel, depth, broker_up, cur, dispatched,
                 invoked, compute_raised, failures, reconnects>>
  /\ UNCHANGED <<spinVars, liveVars, motionVars, dlVars, tgVars>>

\* lines 81-82 and 72-73: the main loop calls consume(), which enters
\* channel.start_consuming().
ConMain ==
  /\ con_pc = "main"
  /\ depth' = 1
  /\ con_pc' = "consuming"
  /\ UNCHANGED <<msgs, queue, channel, consumer_on, broker_up, cur, dispatched,
                 invoked, compute_raised, failures, reconnects>>
  /\ UNCHANGED <<spinVars, liveVars, motionVars, dlVars, tgVars>>

\* start_consuming with callback registered on this channel: the broker
\* delivers the head of the queue; lines 59-61, callback hands it to compute.
ConDeliver ==
  /\ con_pc = "consuming"
  /\ consumer_on = channel
  /\ queue # <<>>
  /\ cur' = Head(queue)
  /\ queue' = AckOnDelivery(queue)
  /\ dispatched' = [dispatched EXCEPT ![Head(queue)] = @ + 1]
  /\ con_pc' = "compute"
  /\ UNCHANGED <<msgs, channel, consumer_on, depth, broker_up, invoked,
                 compute_raised, failures, reconnects>>
  /\ UNCHANGED <<spinVars, liveVars, motionVars, dlVars, tgVars>>

\* Mutant of CallbackRaisePc: callback keeps the fault to the message and the
\* loop goes on.
CallbackConfinesPc == "consuming"

\* lines 59-61 and 73-74: callback and start_consuming catch nothing, so a
\* raise of compute lands in the except branch of consume.
CallbackRaisePc == "except"

\* compute, lines 27-56.  A raise (its own, or an unexpected one of the
\* connector) leaves callback and start_consuming and lands in consume's
\* except branch.
ConCompute ==
  /\ con_pc = "compute"
  /\ LET body == msgs[cur]
         conn == Connector(body.access_type)
     IN IF ComputeRaisesItself(body)
          THEN /\ compute_raised' = compute_raised \cup {cur}
               /\ con_pc' = CallbackRaisePc
               /\ UNCHANGED invoked
          ELSE /\ invoked' = IF conn = "none" THEN invoked
                             ELSE [invoked EXCEPT ![cur] = Append(@, conn)]
               /\ \E raises \in {r \in BOOLEAN : r => conn # "none"} :
                    IF raises
                      THEN /\ compute_raised' = compute_raised \cup {cur}
                           /\ con_pc' = CallbackRaisePc
                      ELSE /\ con_pc' = "consuming"
                           /\ UNCHANGED compute_raised
  /\ cur' = 0
  /\ UNCHANGED <<msgs, queue, channel, consumer_on, depth, broker_up,
                 dispatched, failures, reconnects>>
  /\ UNCHANGED <<spinVars, liveVars, motionVars, dlVars, tgVars>>

\* line 73-74: start_consuming raises (the transport dropped, the broker
\* closed the channel).
ConLoopFails ==
  /\ con_pc = "consuming"
  /\ failures < MaxFailures
  /\ failures' = failures + 1
  /\ con_pc' = "except"
  /\ UNCHANGED <<msgs, queue, channel, consumer_on, depth, broker_up, cur,
                 dispatched, invoked, compute_raised, reconnects>>
  /\ UNCHANGED <<spinVars, liveVars, motionVars, dlVars, tgVars>>

\* line 73 on a channel without a consumer: start_consuming has nothing to
\* wait for and returns; consume() and the frames that called it return, and
\* the main loop is reached again.
ConNoConsumer ==
  /\ con_pc = "consuming"
  /\ consumer_on # channel
  /\ depth' = 0
  /\ con_pc' = "main"
  /\ UNCHANGED <<msgs, queue, channel, consumer_on, broker_up, cur, dispatched,
                 invoked, compute_raised, failures, reconnects>>
  /\ UNCHANGED <<spinVars, liveVars, motionVars, dlVars, tgVars>>

\* lines 74-78: the warning, channel = pika_connect() and the nested
\* consume().  pika_connect opens a connection and declares the queue; it
\* does not register callback.  Its exception is raised inside the except
\* branch, where nothing catches it: it ends the process.
ConExcept ==
  /\ con_pc = "except"
  /\ IF broker_up
       THEN /\ channel' = channel + 1
            /\ reconnects' = reconnects + 1
            /\ depth' = depth + 1
            /\ con_pc' = "consuming"
       ELSE /\ con_pc' = "terminated"
            /\ depth' = 0
            /\ UNCHANGED <<channel, reconnects>>
  /\ UNCHANGED <<msgs, queue, consumer_on, broker_up, cur, dispatched, invoked,
                 compute_raised, failures>>
  /\ UNCHANGED <<spinVars, liveVars, motionVars, dlVars, tgVars>>

\* A producer publishes a download job to file-transfer-Q.
Publish ==
  /\ con_pc # "off"
  /\ broker_up
  /\ \E m \in MsgIds, b \in Bodies :
       /\ msgs[m] = Unsent
       /\ \A k \in MsgIds : k < m => msgs[k] # Unsent
       /\ msgs' = [msgs EXCEPT ![m] = b @@ [after_reconnect |-> reconnects > 0]]
       /\ queue' = Append(queue, m)
  /\ UNCHANGED <<con_pc, channel, consumer_on, depth, broker_up, cur,
                 dispatched, invoked, compute_raised, failures, reconnects>>
  /\ UNCHANGED <<spinVars, liveVars, motionVars, dlVars, tgVars>>

\* The broker becomes unreachable, or reachable again.
BrokerToggle ==
  /\ con_pc \notin {"off", "terminated"}
  /\ broker_up' = ~broker_up
  /\ UNCHANGED <<msgs, queue, con_pc, channel, consumer_on, depth, cur,
                 dispatched, invoked, compute_raised, failures, reconnects>>
  /\ UNCHANGED <<spinVars, liveVars, motionVars, dlVars, tgVars>>

\* The steps of the dispatcher process itself.
ConProgram ==
  \/ ConImport
  \/ ConRegister
  \/ ConMain
  \/ ConDeliver
  \/ ConCompute
  \/ ConLoopFails
  \/ ConNoConsumer
  \/ ConExcept

NextConsumer ==
  \/ ConProgram
  \/ Publish
  \/ BrokerToggle

SpecConsumer == InitConsumer /\ [][NextConsumer]_vars

\* The dispatcher is a running process: whenever it has a step to take, it
\* takes one.  Nothing is assumed of the producers or of the broker's outages.
FairSpecConsumer == SpecConsumer /\ WF_vars(ConProgram)

\* --------------------------------------------------- start_live_recording
\* line 95: now().second, the seconds of the minute, 0..59, at wall clock t.
SecondsInMinute == 60
StopSecs(t) == (start_second + t) % SecondsInMinute

\* The seconds of the minute a window starts at, in the model: at the start
\* of a minute and near its end.
StartSeconds == {0, SecondsInMinute - 2, SecondsInMinute - 1}

\* What the transcoder leaves behind: a playable segment, the 300-byte
\* placeholder of an empty one, or no file at all.
SegmentKinds == {"recorded", "placeholder", "missing"}

\* What concate_videos hands back: the path of a merged file that exists, a
\* path with no file behind it, nothing (None), or an OSError.
ConcatOutcomes == {"file", "no_file", "none", "oserror"}

\* Mutant of Remaining: the time slept is not taken off.
RemainingIgnoresSleep(d, old_duration, slept) == d - old_duration

\* line 98: duration = duration - old_duration - slept_duration.
Remaining(d, old_duration, slept) == d - old_duration - slept

\* line 101: the exit condition, checked after a segment.
ExitCondition(stop_utc, remaining) ==
  force_close <= stop_utc \/ remaining <= 0

\* line 103: output if os.path.isfile(output) else None; os.path.isfile(None)
\* raises TypeError, which the except OSError of line 107 does not catch.
ConcatResult(outcome) ==
  CASE outcome = "file" -> "merged"
    [] outcome = "no_file" -> "absent"
    [] outcome = "oserror" -> "absent"
    [] OTHER -> "raised"

InitLive ==
  /\ SpinOff /\ ConOff /\ MotionOff /\ DownloadOff /\ TriggerOff
  /\ lr_pc = "start"
  /\ duration \in 0..MaxDuration
  /\ force_close = duration
  /\ clock \in 0..1
  /\ start_second \in StartSeconds
  /\ camera_timeout \in 1..MaxTimeout
  /\ slept_duration = 0 /\ lr_idx = 0
  /\ workspace = FALSE /\ segments = <<>> /\ probes = 0
  /\ concat_outcome = "not_called" /\ lr_result = "none"
  /\ slept_total = 0

\* lines 72-88: the duration, the force-close timestamp, the session
\* directory, the counters; a zero duration skips the loop and the function
\* ends without a value.
LrSetup ==
  /\ lr_pc = "start"
  /\ workspace' = TRUE
  /\ slept_duration' = 0
  /\ lr_idx' = 1
  /\ IF duration # 0
       THEN /\ lr_pc' = "loop"
            /\ UNCHANGED lr_result
       ELSE /\ lr_pc' = "done"
            /\ lr_result' = "absent"
  /\ UNCHANGED <<duration, clock, start_second, force_close, camera_timeout,
                 segments, probes, concat_outcome, slept_total>>
  /\ UNCHANGED <<spinVars, conVars, motionVars, dlVars, tgVars>>

\* lines 91-101: the camera answers; one transcoder run for the remaining
\* duration, which takes w seconds; the elapsed time is the segment's length,
\* or the seconds of the minute for the placeholder; without a file,
\* file_size raises OSError and line 107 ends the function silently.
LrSegment ==
  /\ lr_pc = "loop"
  /\ lr_idx <= MaxSegments
  /\ probes' = probes + 1
  /\ \E w \in 0..duration, kind \in SegmentKinds :
       /\ clock' = clock + w
       /\ IF kind = "missing"
            THEN /\ segments' = Append(segments,
                                       [idx |-> lr_idx, requested |-> duration,
                                        elapsed |-> 0,
                                        slept_before |-> slept_total])
                 /\ lr_pc' = "done"
                 /\ lr_result' = "absent"
                 /\ UNCHANGED <<duration, slept_duration, lr_idx>>
            ELSE \E old_duration \in IF kind = "recorded" THEN 0..w
                                           ELSE {StopSecs(clock + w)} :
                   /\ segments' = Append(segments,
                                         [idx |-> lr_idx, requested |-> duration,
                                          elapsed |-> old_duration,
                                          slept_before |-> slept_total])
                   /\ duration' = Remaining(duration, old_duration,
                                            slept_duration)
                   /\ slept_duration' = 0
                   /\ lr_idx' = lr_idx + 1
                   /\ lr_pc' = IF ExitCondition(clock', duration')
                                 THEN "exit" ELSE "loop"
                   /\ UNCHANGED lr_result
  /\ UNCHANGED <<start_second, force_close, camera_timeout, workspace,
                 concat_outcome, slept_total>>
  /\ UNCHANGED <<spinVars, conVars, motionVars, dlVars, tgVars>>

\* lines 104-106: the camera does not answer; camera_timeout is added to the
\* time slept and slept away.
LrCameraDown ==
  /\ lr_pc = "loop"
  /\ clock + camera_timeout <= MaxClock
  /\ probes' = probes + 1
  /\ slept_duration' = slept_duration + camera_timeout
  /\ clock' = clock + camera_timeout
  /\ slept_total' = slept_total + camera_timeout
  /\ UNCHANGED <<lr_pc, duration, lr_idx, start_second, force_close,
                 camera_timeout, workspace, segments, concat_outcome,
                 lr_result>>
  /\ UNCHANGED <<spinVars, conVars, motionVars, dlVars, tgVars>>

\* lines 102-103 and 107-108: the segments are concatenated and the merged
\* file, if it is on disk, returned.
LrConcat ==
  /\ lr_pc = "exit"
  /\ \E outcome \in ConcatOutcomes :
       /\ concat_outcome' = outcome
       /\ lr_result' = ConcatResult(outcome)
       /\ lr_pc' = IF ConcatResult(outcome) = "raised" THEN "raised" ELSE "done"
  /\ UNCHANGED <<duration, slept_duration, lr_idx, clock, start_second,
                 force_close, camera_timeout, workspace, segments, probes,
                 slept_total>>
  /\ UNCHANGED <<spinVars, conVars, motionVars, dlVars, tgVars>>

NextLive ==
  \/ LrSetup
  \/ LrSegment
  \/ LrCameraDown
  \/ LrConcat

SpecLive == InitLive /\ [][NextLive]_vars

\* ------------------------------------------------------------ track_motion
\* line 76: the idle frame count at which a segment is finalized.
IdleFrames == 32

\* line 50: update_frame is set to True for every frame and never cleared.
UpdateFrame(contours) == TRUE

InitMotion ==
  /\ SpinOff /\ ConOff /\ LiveOff /\ DownloadOff /\ TriggerOff
  /\ tm_pc = "start"
  /\ frame_no = 0 /\ first_frame = FALSE
  /\ consec_frames = 0 /\ recording = FALSE /\ tm_idx = 0
  /\ released = FALSE /\ updates = 0 /\ n_starts = 0 /\ n_finishes = 0
  /\ finished_at = NoFrame /\ idle_at_finish = NoFrame
  /\ last_motion = NoFrame /\ on_script = TRUE /\ merges = 0
  /\ tm_result = "none"

\* lines 27-41: the writer, the counter, the working directory (os.mkdir is
\* outside the try block: its error leaves track_motion), the stream.
TmSetup ==
  /\ tm_pc = "start"
  /\ \E mkdir_ok \in BOOLEAN :
       IF mkdir_ok
         THEN /\ tm_pc' = "loop"
              /\ tm_idx' = 1
              /\ UNCHANGED tm_result
         ELSE /\ tm_pc' = "raised"
              /\ tm_result' = "raised"
              /\ UNCHANGED tm_idx
  /\ UNCHANGED <<frame_no, first_frame, consec_frames, recording, released,
                 updates, n_starts, n_finishes, finished_at, idle_at_finish,
                 last_motion, on_script, merges>>
  /\ UNCHANGED <<spinVars, conVars, liveVars, dlVars, tgVars>>

\* lines 43-47: the stream has no further frame (its end, or the stop key
\* released it): the loop is left.
TmEndOfStream ==
  /\ tm_pc = "loop"
  /\ tm_pc' = "end"
  /\ UNCHANGED <<frame_no, first_frame, consec_frames, recording, tm_idx,
                 released, updates, n_starts, n_finishes, finished_at,
                 idle_at_finish, last_motion, on_script, merges, tm_result>>
  /\ UNCHANGED <<spinVars, conVars, liveVars, dlVars, tgVars>>

\* lines 43-55: the first frame read becomes the reference; the loop
\* continues with the next frame at once.
TmFirstFrame ==
  /\ tm_pc = "loop"
  /\ ~released
  /\ frame_no < MaxFrames
  /\ ~first_frame
  /\ first_frame' = TRUE
  /\ frame_no' = frame_no + 1
  /\ UNCHANGED <<tm_pc, consec_frames, recording, tm_idx, released, updates,
                 n_starts, n_finishes, finished_at, idle_at_finish,
                 last_motion, on_script, merges, tm_result>>
  /\ UNCHANGED <<spinVars, conVars, liveVars, dlVars, tgVars>>

\* Mutant of StartsSegment: every qualifying contour starts a segment.
StartsAlways(rec) == TRUE

\* line 71: if not kcw.recording.
StartsSegment(rec) == ~rec

\* lines 62-72: the loop over the n qualifying contours of a frame; each
\* resets consec_frames and, if the writer is not recording, starts a
\* segment under the next index (start sets the writer's recording flag).
RECURSIVE ContourLoop(_, _)
ContourLoop(n, st) ==
  IF n = 0 THEN st
  ELSE ContourLoop(n - 1,
                   IF StartsSegment(st.rec)
                     THEN [rec |-> TRUE, idx |-> st.idx + 1,
                           starts |-> st.starts + 1, consec |-> 0]
                     ELSE [st EXCEPT !.consec = 0])

\* lines 43-82, one pass of the loop for a frame with the given number of
\* qualifying contours (area >= precision), and the stop key pressed or not.
TmFrame ==
  /\ tm_pc = "loop"
  /\ ~released
  /\ frame_no < MaxFrames
  /\ first_frame
  /\ \E contours \in 0..MaxContours, stop_key \in BOOLEAN :
       LET motion == contours > 0
           after == ContourLoop(contours,
                                [rec |-> recording, idx |-> tm_idx,
                                 starts |-> n_starts,
                                 consec |-> consec_frames])
           rec1 == after.rec
           consec0 == after.consec
           consec1 == IF UpdateFrame(contours) THEN consec0 + 1 ELSE consec0
           finishes == rec1 /\ consec1 = IdleFrames
           last1 == IF motion THEN frame_no ELSE last_motion
       IN /\ consec_frames' = consec1
          /\ tm_idx' = after.idx
          /\ n_starts' = after.starts
          /\ updates' = updates + 1
          /\ recording' = (rec1 /\ ~finishes)
          /\ n_finishes' = IF finishes THEN n_finishes + 1 ELSE n_finishes
          /\ finished_at' = IF finishes THEN frame_no ELSE finished_at
          /\ idle_at_finish' = IF finishes THEN frame_no - last1
                                           ELSE idle_at_finish
          /\ last_motion' = last1
          /\ on_script' = (on_script /\ (motion <=> frame_no \in 10..15))
          /\ released' = stop_key
  /\ frame_no' = frame_no + 1
  /\ UNCHANGED <<tm_pc, first_frame, merges, tm_result>>
  /\ UNCHANGED <<spinVars, conVars, liveVars, dlVars, tgVars>>

\* Mutant of OpenAtEnd: the open segment is not looked for.
OpenAtEndIgnored(rec) == FALSE

\* line 83: if kcw.recording.
OpenAtEnd(rec) == rec

\* lines 83-84: after the loop, a segment still open is finalized.
TmEndFinish ==
  /\ tm_pc = "end"
  /\ recording' = IF OpenAtEnd(recording) THEN FALSE ELSE recording
  /\ n_finishes' = IF OpenAtEnd(recording) THEN n_finishes + 1 ELSE n_finishes
  /\ tm_pc' = "merge"
  /\ UNCHANGED <<frame_no, first_frame, consec_frames, tm_idx, released,
                 updates, n_starts, finished_at, idle_at_finish, last_motion,
                 on_script, merges, tm_result>>
  /\ UNCHANGED <<spinVars, conVars, liveVars, dlVars, tgVars>>

\* lines 85-93: the segments are merged, and the re-encoded file is the
\* result if the merge produced a file.
TmMerge ==
  /\ tm_pc = "merge"
  /\ merges' = merges + 1
  /\ \E merged \in BOOLEAN :
       tm_result' = IF merged THEN "file" ELSE "absent"
  /\ tm_pc' = "done"
  /\ UNCHANGED <<frame_no, first_frame, consec_frames, recording, tm_idx,
                 released, updates, n_starts, n_finishes, finished_at,
                 idle_at_finish, last_motion, on_script>>
  /\ UNCHANGED <<spinVars, conVars, liveVars, dlVars, tgVars>>

\* lines 94-95: an error inside the try block is logged and track_motion
\* ends without a value.
TmRaise ==
  /\ tm_pc \in {"loop", "end", "merge"}
  /\ tm_pc' = "done"
  /\ tm_result' = "absent"
  /\ UNCHANGED <<frame_no, first_frame, consec_frames, recording, tm_idx,
                 released, updates, n_starts, n_finishes, finished_at,
                 idle_at_finish, last_motion, on_script, merges>>
  /\ UNCHANGED <<spinVars, conVars, liveVars, dlVars, tgVars>>

NextMotion ==
  \/ TmSetup
  \/ TmEndOfStream
  \/ TmFirstFrame
  \/ TmFrame
  \/ TmEndFinish
  \/ TmMerge
  \/ TmRaise

SpecMotion == InitMotion /\ [][NextMotion]_vars

\* ------------------------------------------------- the download connectors
\* file_size: the step between two units.
UnitStep == 1024
Kib == UnitStep
Mib == UnitStep * UnitStep

\* file_size: the suffixes, smallest unit first.
SizeUnits == <<"bytes", "KB", "MB", "GB", "TB", "PB">>

\* file_size: the index of the unit a size of n is rendered in; the size is
\* divided by the step until it is below it.
RECURSIVE UnitIndex(_, _)
UnitIndex(n, k) ==
  IF n < UnitStep \/ k = Len(SizeUnits) THEN k
  ELSE UnitIndex(n \div UnitStep, k + 1)

\* file_size(path) as far as its suffix goes.
FileSizeUnit(n) == SizeUnits[UnitIndex(n, 1)]

\* lines 130, 182, 226: fz(...).endswith('KB').
Unusable(n) == FileSizeUnit(n) = "KB"

\* The sizes a file has in the model: around each unit boundary.
FileSizes == {0, 300, Kib - 1, Kib, 300 * Kib, Mib - 1, Mib, Mib + 1}

Connectors == {"gdrive", "azure", "ftp"}

\* How the HTTP fetch of the Drive and Azure connectors goes.
FetchOutcomes == {"written", "network_before", "network_midway", "unexpected"}

\* How the secure copy goes: the file of the job's name arrives, a file of
\* another name arrives (scp keeps the remote name), or the copy fails.
ScpOutcomes == {"named", "other_name", "failed"}

\* lines 134 and 186: the Drive connector catches the request errors only,
\* the Azure connector every Exception.
CatchesUnexpected(c) == c = "azure"

InitDownload ==
  /\ SpinOff /\ ConOff /\ LiveOff /\ MotionOff /\ TriggerOff
  /\ dl_pc = "start"
  /\ connector \in Connectors
  /\ dl_file \in FileSizes \cup {NoSize}
  /\ dl_written = FALSE /\ dl_transfer = "none" /\ dl_result = "none"
  /\ dl_msg = ""

\* The pair a connector returns.
DlReturn(result, msg) ==
  /\ dl_pc' = "done"
  /\ dl_result' = result
  /\ dl_msg' = msg

\* lines 113-129 and 173-181: the request, then the file opened for writing
\* and filled with what the response carries.
DlFetch ==
  /\ dl_pc = "start"
  /\ connector \in {"gdrive", "azure"}
  /\ \E outcome \in FetchOutcomes, n \in FileSizes :
       /\ dl_transfer' = outcome
       /\ CASE outcome = "written" ->
                 /\ dl_file' = n /\ dl_written' = TRUE
                 /\ dl_pc' = "check"
                 /\ UNCHANGED <<dl_result, dl_msg>>
            [] outcome = "network_before" ->
                 /\ DlReturn("absent", "[e] Error while downloading file")
                 /\ UNCHANGED <<dl_file, dl_written>>
            [] outcome = "network_midway" ->
                 /\ dl_file' = n /\ dl_written' = TRUE
                 /\ DlReturn("absent", "[e] Error while downloading file")
            [] OTHER ->
                 /\ IF CatchesUnexpected(connector)
                      THEN DlReturn("absent", "[e] Error while downloading file")
                      ELSE DlReturn("raised", "")
                 /\ UNCHANGED <<dl_file, dl_written>>
  /\ UNCHANGED connector
  /\ UNCHANGED <<spinVars, conVars, liveVars, motionVars, tgVars>>

\* lines 223-225: os.system runs sshpass/scp into the downloads directory and
\* hands back its exit status, which is not looked at.
DlScp ==
  /\ dl_pc = "start"
  /\ connector = "ftp"
  /\ \E outcome \in ScpOutcomes, n \in FileSizes :
       /\ dl_transfer' = outcome
       /\ IF outcome = "named"
            THEN dl_file' = n /\ dl_written' = TRUE
            ELSE UNCHANGED <<dl_file, dl_written>>
  /\ dl_pc' = "check"
  /\ UNCHANGED <<connector, dl_result, dl_msg>>
  /\ UNCHANGED <<spinVars, conVars, liveVars, motionVars, tgVars>>

\* Mutant of AfterUnusable: the connector deletes the file it found unusable.
UnusableRemoved(f) == NoSize

\* lines 130-132, 182-184, 226-228: what the connector leaves of a file it
\* found unusable: it logs and returns, the file stays as written.
AfterUnusable(f) == f

\* lines 130-133, 182-185, 226-233: the size check of <file_name>.mp4 and the
\* pair returned; without the file, file_size raises OSError, which only the
\* FTP connector catches by name and the Azure one as an Exception.
DlCheck ==
  /\ dl_pc = "check"
  /\ IF dl_file = NoSize
       THEN IF connector = "ftp"
              THEN DlReturn("absent", "[e] Error while transferring file")
              ELSE IF CatchesUnexpected(connector)
                     THEN DlReturn("absent", "[e] Error while downloading file")
                     ELSE DlReturn("raised", "")
       ELSE IF Unusable(dl_file)
              THEN DlReturn("absent",
                            IF connector = "ftp"
                              THEN "[w] Unusable file transferred."
                              ELSE "[w] Unusable file downloaded.")
              ELSE DlReturn("success", "path")
  /\ dl_file' = IF dl_file # NoSize /\ Unusable(dl_file)
                  THEN AfterUnusable(dl_file) ELSE dl_file
  /\ UNCHANGED <<connector, dl_written, dl_transfer>>
  /\ UNCHANGED <<spinVars, conVars, liveVars, motionVars, tgVars>>

NextDownload ==
  \/ DlFetch
  \/ DlScp
  \/ DlCheck

SpecDownload == InitDownload /\ [][NextDownload]_vars

\* ---------------------------------------------------- trigger_live_capture
\* The characters of the time strings, by their code: the digits and the
\* point that opens the fraction of a second.
DigitChar(d) == 48 + d
PointChar == 46

\* A second of the day as strftime and str() write it, with leading zero.
\* (The date in front of it is the run date on both sides of the comparison.)
TimeStr(t) == <<DigitChar(t \div 10), DigitChar(t % 10)>>

\* str(now()): the time, and the fraction of a second unless it is zero.
NowStr(t, fraction) ==
  IF fraction THEN TimeStr(t) \o <<PointChar, DigitChar(5)>> ELSE TimeStr(t)

\* Python's comparison of two strings from position i on: -1, 0 or 1.
RECURSIVE StrCmp(_, _, _)
StrCmp(a, b, i) ==
  IF i > Len(a) /\ i > Len(b) THEN 0
  ELSE IF i > Len(a) THEN 0 - 1
  ELSE IF i > Len(b) THEN 1
  ELSE IF a[i] < b[i] THEN 0 - 1
  ELSE IF a[i] > b[i] THEN 1
  ELSE StrCmp(a, b, i + 1)

\* Mutant of Reached: the comparison is strict.
ReachedStrictly(now_str, start_str) == StrCmp(now_str, start_str, 1) > 0

\* line 126: str(now()) >= _start_time.
Reached(now_str, start_str) == StrCmp(now_str, start_str, 1) >= 0

InitTrigger ==
  /\ SpinOff /\ ConOff /\ LiveOff /\ MotionOff /\ DownloadOff
  /\ tg_pc = "poll"
  /\ tg_start \in 0..MaxTime
  /\ tg_first \in 0..MaxTime
  /\ tg_now = tg_first
  /\ tg_polls = 0 /\ tg_calls = 0 /\ tg_called_at = 0

\* lines 125-130: a poll that finds the start time reached hands over to
\* start_live_recording and returns what it returns.
TgDelegate ==
  /\ tg_pc = "poll"
  /\ \E fraction \in BOOLEAN :
       Reached(NowStr(tg_now, fraction), TimeStr(tg_start))
  /\ tg_calls' = tg_calls + 1
  /\ tg_called_at' = tg_now
  /\ tg_pc' = "done"
  /\ UNCHANGED <<tg_start, tg_first, tg_now, tg_polls>>
  /\ UNCHANGED <<spinVars, conVars, liveVars, motionVars, dlVars>>

\* lines 125-131: a poll that finds the start time not reached sleeps for a
\* second.
TgWait ==
  /\ tg_pc = "poll"
  /\ tg_now < MaxTime
  /\ \E fraction \in BOOLEAN :
       ~Reached(NowStr(tg_now, fraction), TimeStr(tg_start))
  /\ tg_polls' = tg_polls + 1
  /\ tg_now' = tg_now + 1
  /\ UNCHANGED <<tg_pc, tg_start, tg_first, tg_calls, tg_called_at>>
  /\ UNCHANGED <<spinVars, conVars, liveVars, motionVars, dlVars>>

NextTrigger ==
  \/ TgDelegate
  \/ TgWait

SpecTrigger == InitTrigger /\ [][NextTrigger]_vars

\* ------------------------------------------- a download, then a spin on it
\* The jobs that follow a download in the model: with or without use_stored
\* and compression, without the analyses and the trimming.
LaterJobs ==
  {j \in Jobs : /\ ~j.analyze_motion /\ ~j.analyze_face
                /\ ~j.perform_trimming /\ j.trim_compressed = "absent"}

\* turntable.py lines 96-117: spin is called for a job whose stored_filename
\* is the file_name of the download; downloads holds <file_name>.mp4 when the
\* connector left a file of that name there.
LaterSpin ==
  /\ dl_pc = "done"
  /\ spin_pc = "off"
  /\ job' \in LaterJobs
  /\ disk' = IF dl_file # NoSize THEN {Stored} ELSE {}
  /\ spin_pc' = "parse"
  /\ UNCHANGED <<original_file, cloned_file, temp_file, final_file,
                 upload_list, temp_list, trim_upload, urls, bucket_objs, csv,
                 db_calls, removed, spin_log, raised_at, ran, spin_exit,
                 trim_compressed>>
  /\ UNCHANGED <<conVars, liveVars, motionVars, dlVars, tgVars>>

InitDownloadThenSpin == InitDownload

NextDownloadThenSpin ==
  \/ NextDownload
  \/ LaterSpin
  \/ NextSpin

SpecDownloadThenSpin ==
  InitDownloadThenSpin /\ [][NextDownloadThenSpin]_vars

\* ================================================================ claims
\* ---------------------------------------------------------------- spin

StepNo(s) ==
  CASE s = "parse" -> 1
    [] s = "acquire" -> 2
    [] s = "clone" -> 3
    [] s = "motion" -> 4
    [] s = "sample" -> 5
    [] s = "face" -> 6
    [] s = "rename" -> 7
    [] s = "compress_trim" -> 8
    [] s = "bucket" -> 9
    [] s = "upload" -> 10
    [] s = "csv" -> 11
    [] s = "db" -> 12
    [] s = "cleanup" -> 13
    [] OTHER -> 0

NoDuplicates(s) == \A i, k \in DOMAIN s : s[i] = s[k] => i = k

FailedInserts == {i \in DOMAIN db_calls : ~db_calls[i].ok}
LoggedInsertErrors == {i \in DOMAIN spin_log : spin_log[i] = "insert_error"}

C1_Scenario ==
  /\ job.use_stored /\ ~job.analyze_motion /\ ~job.analyze_face
  /\ job.perform_compression /\ ~job.perform_trimming
  /\ original_file = Stored
  /\ raised_at = "none" /\ FailedInserts = {}
  /\ NoUrl \notin Range(urls)

\* C1: a successful spin run of a job with use_stored, no motion analysis, no
\* face redaction, compression and no trimming has uploaded exactly two
\* artifacts, the final renamed/compressed file and the audit sample, has made
\* exactly two database inserts and has appended exactly one CSV row that
\* lists both URLs.
C1_TwoArtifactsUploaded ==
  (spin_pc = "done" /\ C1_Scenario) =>
    /\ Len(bucket_objs) = 2
    /\ Sample \in Range(bucket_objs)
    /\ \E f \in {Final, Compressed} : f \in Range(bucket_objs)
    /\ Len(db_calls) = 2
    /\ Len(csv) = 1
    /\ Len(csv[1]) = 2

C7_Abandoned ==
  raised_at # "none" =>
    /\ spin_pc \in {"handler", "returned"}
    /\ spin_exit \in {"none", "return"}
    /\ StepNo(raised_at) <= StepNo("upload") =>
         Len(bucket_objs) <= Len(urls) /\ csv = <<>>
    /\ StepNo(raised_at) <= StepNo("csv") => csv = <<>> /\ db_calls = <<>>
    /\ StepNo(raised_at) < StepNo("cleanup") => removed = <<>>
    /\ spin_pc = "returned" => spin_exit = "return"

C7_NothingAfterFailure ==
  raised_at # "none" =>
    /\ raised_at' = raised_at
    /\ UNCHANGED <<upload_list, urls, bucket_objs, csv, db_calls, removed,
                   disk, ran>>

\* C7: once a step of spin has raised a non-interrupt exception past its own
\* handling (bucket provisioning and the single inserts catch theirs), spin
\* only logs and returns to its caller: nothing is propagated, no later step
\* runs (no upload, no CSV row, no insert, no deletion), and no step is ever
\* run twice.
C7_FailureAbandonsJob ==
  /\ [](C7_Abandoned /\ NoDuplicates(ran))
  /\ [][C7_NothingAfterFailure]_vars

\* C7 witness: spin has returned after an upload raised with one file already
\* uploaded.
C7_Witness ==
  /\ spin_pc = "returned"
  /\ raised_at = "upload"
  /\ Len(bucket_objs) = 1
  /\ Len(upload_list) >= 2

\* ------------------------------------------------------ the dispatcher

SentAfterReconnect(m) == msgs[m].sent /\ msgs[m].after_reconnect

\* C3: after a failure of the consume loop the dispatcher reconnects and
\* resumes consuming: every message published to file-transfer-Q after the
\* reconnect is eventually passed to compute.
C3_ResumesConsuming ==
  \A m \in MsgIds : [](SentAfterReconnect(m) => <>(dispatched[m] > 0))

\* C4: once it has made its first connection, the dispatcher process never
\* terminates, whatever fails and however often, the reconnect attempt
\* included.
C4_NeverTerminates == channel > 0 => con_pc # "terminated"

\* C8: no message is passed to compute more than once.
C8_AtMostOnce == \A m \in DOMAIN dispatched : dispatched[m] <= 1

\* C8 witness: the handling of a message raised, the dispatcher has
\* reconnected and is consuming again, and the message was dispatched once.
C8_Witness ==
  /\ con_pc = "consuming"
  /\ reconnects > 0
  /\ \E m \in compute_raised : dispatched[m] = 1

Handled(m) == msgs[m].sent /\ dispatched[m] > 0 /\ cur # m

\* C9: for a message with access_type GCP, Microsoft, FTP or S3 compute calls
\* exactly the Google Drive, Azure, FTP/SCP or S3-ingest operation; for
\* FTP TOOL and for any other or missing access_type it calls no connector,
\* raises nothing and leaves the consumer running.
C9_DispatchByAccessType ==
  \A m \in DOMAIN msgs :
    (Handled(m) /\ msgs[m].valid) =>
      LET a == msgs[m].access_type
      IN /\ a = "GCP" => invoked[m] = <<"download_from_google_drive">>
         /\ a = "Microsoft" => invoked[m] = <<"download_from_azure">>
         /\ a = "FTP" => invoked[m] = <<"download_using_ftp">>
         /\ a = "S3" => invoked[m] = <<"access_file_update">>
         /\ a \in {"FTP TOOL", "other", "missing"} =>
              /\ invoked[m] = <<>>
              /\ m \notin compute_raised

\* ------------------------------------------------- start_live_recording

\* C5: for a non-zero duration start_live_recording concatenates and returns
\* once the force-close timestamp has passed, whatever the liveness probes
\* answer: it never starts another round of its loop a full camera_timeout
\* or more after that timestamp.
C5_ReturnsOnceForceClosePassed ==
  lr_pc = "loop" => clock < force_close + camera_timeout

\* C10: once the exit condition is met, start_live_recording returns the
\* merged file when it is on disk and nothing otherwise, also when the
\* concatenation hands back no merged file; it raises in neither case.
C10_ExitReturnsMergedOrAbsent ==
  concat_outcome # "not_called" =>
    /\ lr_pc = "done"
    /\ lr_result = IF concat_outcome = "file" THEN "merged" ELSE "absent"

\* --------------------------------------------------------- track_motion

\* C6: a segment being recorded is finalized exactly at the frame at which
\* 32 consecutive frames without a qualifying contour have been processed
\* since the last frame with motion; with motion on frames 10..15 only,
\* exactly one segment is produced and it is finalized at frame 48.
C6_FinalizedAfter32IdleFrames ==
  /\ finished_at # NoFrame => idle_at_finish = 32
  /\ (on_script /\ frame_no > 48) =>
       n_starts = 1 /\ n_finishes = 1 /\ finished_at = 48

\* ------------------------------------------------- start_live_recording

\* C11: a call whose window has a total duration of zero takes no action: no
\* session workspace is created, no liveness probe, transcoder segment or
\* concatenation is run, and the call ends with the absent result.
C11_ZeroDurationNoAction ==
  (force_close = 0 /\ lr_pc \notin {"off", "start"}) =>
    /\ ~workspace
    /\ probes = 0
    /\ segments = <<>>
    /\ concat_outcome = "not_called"
    /\ lr_pc = "done" /\ lr_result = "absent"

\* ------------------------------------------------- the download connectors

\* C12: a fetch that completed with a file below 1 MiB, files below 1 KiB
\* included, returns the absent result with a message, and a fetch that
\* returns success has a file of at least 1 MiB.
C12_SmallFileUnusable ==
  (dl_pc = "done" /\ dl_written /\ dl_transfer \in {"written", "named"}) =>
    /\ dl_file < Mib => dl_result = "absent" /\ dl_msg # ""
    /\ dl_result = "success" => dl_file >= Mib

\* C13: download_using_ftp returns success only if the secure copy of this
\* call succeeded and produced <file_name>.mp4; whenever the copy fails it
\* returns the absent result with a non-empty message, whatever file of that
\* name an earlier download left behind; it never raises.
C13_FtpSuccessOnlyIfTransferred ==
  (dl_pc = "done" /\ connector = "ftp") =>
    /\ dl_result = "success" => dl_transfer = "named" /\ dl_written
    /\ dl_transfer = "failed" => dl_result = "absent" /\ dl_msg # ""
    /\ dl_result # "raised"

\* --------------------------------------------------------- track_motion

\* C14: no error of a track_motion run reaches the caller, an error while
\* the working directory is created included: the run ends with the absent
\* result instead.
C14_NeverPropagates ==
  /\ tm_result # "raised"
  /\ tm_pc # "raised"

\* ---------------------------------------------------------------- spin

\* C15: with use_stored and no <stored_filename>.mp4 in downloads, spin fails
\* fast: it logs the error and goes to its handler from the presence check,
\* and nothing is copied, captured, analysed, sampled, uploaded, reported,
\* inserted or deleted.
C15_MissingStoredFailsFast ==
  (job.use_stored /\ Stored \notin disk /\ spin_pc # "off") =>
    /\ spin_pc \in {"parse", "acquire", "handler", "returned", "exited"}
    /\ disk = {}
    /\ cloned_file = NoFile /\ temp_file = NoFile /\ final_file = NoFile
    /\ original_file # Live
    /\ upload_list = <<>> /\ temp_list = <<>> /\ urls = <<>>
    /\ bucket_objs = <<>> /\ csv = <<>> /\ db_calls = <<>> /\ removed = <<>>
    /\ \A i \in DOMAIN ran : StepNo(ran[i][1]) <= StepNo("parse")
    /\ spin_pc = "returned" => spin_exit = "return"

\* C15 witness: spin has returned after the presence check found no file.
C15_Witness ==
  /\ job.use_stored /\ Stored \notin disk
  /\ spin_pc = "returned"
  /\ raised_at = "acquire"
  /\ \E i \in DOMAIN spin_log : spin_log[i] = "not_selected"

\* C16: an operator interrupt during spin stops the job at once, is logged
\* as an error, and hands the caller a non-zero exit status.
C16_InterruptNonZeroExit ==
  spin_pc = "exited" =>
    /\ \E i \in DOMAIN spin_log : spin_log[i] = "interrupted"
    /\ spin_exit # "exit0"

\* ------------------------------------------------- start_live_recording

RECURSIVE ElapsedBefore(_)
ElapsedBefore(i) ==
  IF i <= 1 THEN 0 ELSE segments[i - 1].elapsed + ElapsedBefore(i - 1)

\* C17: the duration handed to each transcoder segment is the window's total
\* duration minus the elapsed time of all earlier segments minus all the time
\* slept with the camera down before the segment starts.
C17_SegmentGetsRemainingDuration ==
  \A i \in DOMAIN segments :
    segments[i].requested =
      force_close - ElapsedBefore(i) - segments[i].slept_before

\* ---------------------------------------------------------------- spin

TrimCalls == {i \in DOMAIN ran : ran[i][1] = "trim"}
CompressTrimRan == \E i \in DOMAIN ran : ran[i][1] = "compress_trim"
RenameRan == \E i \in DOMAIN ran : ran[i][1] = "rename"

C19_StageNo(st) ==
  CASE st = "acquire" -> 1
    [] st = "motion" -> 2
    [] st = "face" -> 3
    [] st = "sample" -> 4
    [] st = "rename" -> 5
    [] st = "compress_trim" -> 6
    [] st = "trim" -> 6
    [] st = "upload" -> 7
    [] st = "db" -> 8
    [] st = "csv" -> 9
    [] st = "cleanup" -> 10
    [] OTHER -> 0

\* Whether the stage of a step ran: the motion and face steps only pass the
\* file on when their flag is off.
C19_StageRan(st) ==
  /\ C19_StageNo(st) > 0
  /\ st = "motion" => job.analyze_motion
  /\ st = "face" => job.analyze_face

\* C19: the stages of a spin run execute in the order acquire, analyze
\* motion, redact faces, extract audit sample, rename, compress/trim, upload,
\* persist database records, append CSV report, clean up: no stage runs
\* before a stage that precedes it in that order.
C19_StageOrder ==
  \A i, k \in DOMAIN ran :
    (i < k /\ C19_StageRan(ran[i][1]) /\ C19_StageRan(ran[k][1])) =>
      C19_StageNo(ran[i][1]) <= C19_StageNo(ran[k][1])

C20_Uploaded(i) == i \in DOMAIN urls /\ urls[i] # NoUrl

\* C20: no local file is deleted before every file of the upload list has
\* been uploaded, the CSV row appended and the inserts attempted; the files
\* deleted by a run that succeeds are exactly the audit sample and the
\* uploaded files; and an insert or a CSV entry is only made for a file whose
\* upload returned a URL.
C20_DeleteOnlyAfterDelivery ==
  /\ removed # <<>> =>
       /\ \A i \in DOMAIN upload_list : C20_Uploaded(i)
       /\ Len(csv) = 1
       /\ Len(db_calls) = Len(upload_list)
  /\ spin_pc = "done" =>
       Range(removed) = {Sample} \cup Range(bucket_objs)
  /\ \A i \in DOMAIN db_calls : db_calls[i].url # NoUrl
  /\ \A i \in DOMAIN csv : NoUrl \notin Range(csv[i])

\* C21: whenever the enabled analysis stages have returned a file, the path
\* handed to the audit-sample step and to the rename step is the path of the
\* working copy made by the clone step, and after a swap the stage's output is
\* no longer on disk under its own name.  (With analyze_motion the call of
\* track_motion raises before it returns anything, so the motion stage never
\* hands a file back; the swap that is reached is the one of the face stage.)
C21_StablePath ==
  /\ spin_pc = "sample" => temp_file = Clone /\ Clone \in disk
  /\ spin_pc = "rename" =>
       /\ cloned_file = Clone /\ temp_file = Clone
       /\ Clone \in disk
       /\ Redacted \notin disk

\* C21 witness: the face stage has returned its file, the swap is done and
\* the rename step is about to take the working copy.
C21_Witness ==
  /\ job.analyze_face
  /\ spin_pc = "rename"
  /\ \E i \in DOMAIN ran : ran[i][1] = "face"
  /\ cloned_file = Clone

\* ------------------------------------------------- start_live_recording

C22_SegmentRecorded ==
  /\ Len(segments') = Len(segments) + 1
  /\ lr_pc' \in {"loop", "exit"}

C22_ProbeFailed ==
  /\ probes' = probes + 1
  /\ segments' = segments

C22_Step ==
  /\ C22_SegmentRecorded =>
       /\ duration' = duration - segments'[Len(segments')].elapsed
                               - slept_duration
       /\ slept_duration' = 0
       /\ lr_idx' = lr_idx + 1
  /\ C22_ProbeFailed =>
       /\ slept_duration' = slept_duration + camera_timeout
       /\ duration' = duration
       /\ lr_idx' = lr_idx
  /\ duration' <= duration

\* C22: after each recorded segment the remaining duration is what it was
\* minus the segment's elapsed time minus the accumulated sleep, the sleep
\* accumulator is zero and the segment index is one more; after each failed
\* probe the accumulator has grown by camera_timeout and the remaining
\* duration and the index are unchanged; the remaining duration never
\* increases and no two segments of a session share an index.
C22_SegmentBookkeeping ==
  /\ [][C22_Step]_vars
  /\ [](\A i, k \in DOMAIN segments :
          segments[i].idx = segments[k].idx => i = k)

\* C22 witness: a second segment has been recorded after a probe had failed,
\* and the loop goes on.
C22_Witness ==
  /\ Len(segments) = 2
  /\ segments[2].slept_before > 0
  /\ lr_pc = "loop"
  /\ slept_duration = 0

\* --------------------------------------------------------- track_motion

\* C23: every frame read from the source, the first one that becomes the
\* reference included, is pushed into the clip writer exactly once via
\* update.
C23_EveryFrameUpdated ==
  tm_pc \in {"loop", "end", "merge", "done"} => updates = frame_no

C24_Step ==
  /\ n_starts' <= n_starts + 1
  /\ n_starts' = n_starts + 1 =>
       /\ ~recording /\ recording'
       /\ tm_idx' = tm_idx + 1
       /\ consec_frames' = 1

\* C24: start is called only while the writer is not recording, so that the
\* start and finish calls alternate; a frame with several qualifying
\* contours starts at most one segment; a start resets the idle counter (it
\* holds the starting frame's own count of 1 when the frame is done); and
\* the segments get the indexes 1, 2, 3, ... in turn.
C24_StartFinishAlternate ==
  /\ [](/\ n_starts - n_finishes \in {0, 1}
        /\ recording <=> n_starts = n_finishes + 1
        /\ tm_pc \in {"loop", "end", "merge", "done"} => tm_idx = n_starts + 1)
  /\ [][C24_Step]_vars

\* C24 witness: a first segment was finalized and a second one, of index 2,
\* is being recorded.
C24_Witness ==
  /\ n_starts = 2 /\ n_finishes = 1
  /\ recording
  /\ tm_idx = 3

C25_Step ==
  /\ released => frame_no' = frame_no /\ updates' = updates
  /\ merges' # merges =>
       /\ merges' = merges + 1
       /\ ~recording /\ ~recording'
       /\ n_finishes = n_starts

\* C25: at the end of the stream, the source exhausted or the stop key
\* seen, a segment still open is finalized before the merge, the merge is
\* called exactly once, and no frame is processed after the stop key.
C25_EndOfStream ==
  /\ [](/\ merges <= 1
        /\ tm_pc = "merge" => ~recording /\ n_finishes = n_starts
        /\ (tm_pc = "done" /\ tm_result = "file") => merges = 1)
  /\ [][C25_Step]_vars

\* C25 witness: the stop key ended the loop with a segment open; it was
\* finalized and the merge has run.
C25_Witness ==
  /\ released
  /\ tm_pc = "done" /\ merges = 1
  /\ n_starts = 1 /\ n_finishes = 1
  /\ finished_at = NoFrame

\* ----------------------------------------------------- the capture trigger

C26_Later(a, b) == IF a >= b THEN a ELSE b

C26_Step ==
  /\ tg_calls' # tg_calls => tg_now >= tg_start
  /\ tg_now' # tg_now =>
       /\ tg_now' = tg_now + 1
       /\ tg_now < tg_start
       /\ tg_calls' = tg_calls

\* C26: the trigger calls start_live_recording exactly once, at a poll at
\* which the current time has reached the start time and at no earlier one,
\* polling once per second until then; with the start time already passed at
\* the first poll it hands over at once.
C26_DelegatesOnceAtStart ==
  /\ [](/\ tg_calls <= 1
        /\ tg_pc = "done" =>
             /\ tg_calls = 1
             /\ tg_called_at = C26_Later(tg_first, tg_start)
             /\ tg_polls = tg_called_at - tg_first
        /\ tg_pc = "poll" => tg_now = tg_first + tg_polls)
  /\ [][C26_Step]_vars

\* C26 witness: the trigger has polled more than once before the start time
\* and has handed over at the start time.
C26_Witness ==
  /\ tg_pc = "done"
  /\ tg_polls >= 2
  /\ tg_called_at = tg_start
  /\ tg_start >= 10

\* ------------------------------------------------- the trim_compressed flag

\* C27: once spin has resolved the flags, trim_compressed is false whenever
\* perform_trimming is false, whatever the payload says, and is the payload
\* value, true by default, when perform_trimming is true; in every state
\* trim_compressed implies perform_trimming.
C27_ResolvedTrimCompressed ==
  /\ trim_compressed => job.perform_trimming
  /\ RenameRan =>
       /\ ~job.perform_trimming => ~trim_compressed
       /\ job.perform_trimming =>
            trim_compressed = (job.trim_compressed \in {"absent", "true"})

\* C27 witness: the payload asks for trim_compressed and for no trimming, and
\* spin has resolved the flags and compressed without calling the trimming.
C27_Witness ==
  /\ ~job.perform_trimming /\ job.trim_compressed = "true"
  /\ job.perform_compression
  /\ RenameRan /\ CompressTrimRan
  /\ ~trim_compressed
  /\ TrimCalls = {}

\* ------------------------------------------------ the motion stage of spin

C29_ReportedUnusable ==
  /\ dl_pc = "done"
  /\ dl_msg \in {"[w] Unusable file downloaded.",
                 "[w] Unusable file transferred."}

C29_Step == dl_file # NoSize => dl_file' # NoSize

\* C29: a download reported as unusable leaves its file in downloads, in the
\* KB range; no connector removes the file it wrote; and a later spin with
\* use_stored naming that file passes the presence check and goes on with
\* the file.
C29_UnusableFileStaysAndIsProcessed ==
  /\ [](C29_ReportedUnusable =>
          /\ dl_file # NoSize /\ Unusable(dl_file)
          /\ dl_result = "absent"
          /\ (job.use_stored /\ spin_pc # "off") =>
               /\ Stored \in disk \/ original_file = Stored
               /\ "not_selected" \notin Range(spin_log)
               /\ spin_pc \in {"clone", "done"} => original_file = Stored)
  /\ [][C29_Step]_vars

\* C29 witness: the download was reported unusable, and a later spin with
\* use_stored has taken that file through to the end.
C29_Witness ==
  /\ C29_ReportedUnusable
  /\ job.use_stored
  /\ spin_pc = "done"
  /\ original_file = Stored
  /\ urls # <<>>

\* --------------------------------------------- a fault in one message

C30_Step ==
  /\ \A m \in MsgIds :
       m \in compute_raised' \ compute_raised =>
         /\ con_pc = "compute" /\ cur = m
         /\ con_pc' = "except"
  /\ (con_pc = "compute" /\ con_pc' # "compute"
        /\ ComputeRaisesItself(msgs[cur])) =>
       /\ cur \in compute_raised'
       /\ invoked' = invoked
  /\ (con_pc = "except" /\ con_pc' # "except") =>
       \/ /\ con_pc' = "consuming"
          /\ channel' = channel + 1
          /\ reconnects' = reconnects + 1
          /\ depth' = depth + 1
       \/ con_pc' = "terminated"

\* C30: a fault raised while one message is handled, a body that is not JSON
\* or a connector raising, leaves callback and the consume loop: the
\* dispatcher goes to the except branch of consume, which reconnects (or ends
\* the process when the broker cannot be reached), and the message is
\* dropped: it is off the queue and is not delivered again.
C30_FaultLeavesLoopAndDropsMessage ==
  /\ [](\A m \in compute_raised :
          /\ m \notin Range(queue)
          /\ dispatched[m] = 1)
  /\ [][C30_Step]_vars

\* C30 witness: a body that is not JSON has raised in compute, and the
\* dispatcher has reconnected and is in the loop again, the message gone.
C30_Witness ==
  \E m \in compute_raised :
    /\ ~msgs[m].valid
    /\ m \notin Range(queue)
    /\ reconnects >= 1
    /\ channel >= 2
    /\ con_pc = "consuming"

====
